---- MODULE Spec2Model ----
(***************************************************************************)
(* Fluxora stream contract: the lifecycle entry points of                  *)
(* contracts/stream/src/lib.rs and the pure accrual helper of              *)
(* contracts/stream/src/accrual.rs.                                        *)
(*                                                                         *)
(* Every contract entry point is an operator from a world (the contract's  *)
(* instance storage plus the token ledger) to a result: the error it       *)
(* panicked with ("" when it returned), the world as the code had written  *)
(* it when it stopped, the returned value and the events it published.     *)
(* The statements of an entry point are translated in source order, so a   *)
(* write that the code performs before a later panic is visible in the     *)
(* result's world.                                                         *)
(***************************************************************************)
EXTENDS Integers, Sequences, FiniteSets, TLC

VARIABLES
    admin,            \* DataKey::Admin, NoAddr while unset
    token,            \* DataKey::Token, NoAddr while unset
    stream_count,     \* DataKey::StreamCount (read as 0 while unset)
    streams,          \* DataKey::Stream(id), a function on the stored ids
    bal,              \* token ledger: balance of every account and of the contract
    now,              \* env.ledger().timestamp()
    overflow_checks,  \* whether the build panics on i128 overflow (else it wraps)
    last,             \* the last step: entry point, panic message, return value, published events
    cancels,          \* history: for every cancelled stream, the time and the refund of its cancel
    engine            \* a direct call of accrual::calculate_accrued_amount: its arguments and result

vars == <<admin, token, stream_count, streams, bal, now, overflow_checks, last, cancels, engine>>

\* ------------------------------------------------------------------------
\* Bounds
\* ------------------------------------------------------------------------

\* width of the signed amount type (i128 in the source), scaled down
I128Bits == 4
\* largest ledger timestamp explored (u64 in the source)
MaxTime == 3
\* largest number of streams created in one behaviour
MaxStreams == 2
\* tokens minted to alice before the first call
MintAmount == 4

I128Max == 2 ^ (I128Bits - 1) - 1
I128Min == 0 - 2 ^ (I128Bits - 1)

Accounts == {"alice", "bob", "carol"}
Holding == "contract"
NoAddr == "none"
Tokens == {"USDC"}

\* inputs of init
AdminInputs == {"alice", "carol"}
\* inputs of create_stream
SenderInputs == {"alice"}
RecipientInputs == {"alice", "bob"}
DepositInputs == {-1, 0, 2, 3, I128Max}
RateInputs == {-1, 0, 1, I128Max}
StartInputs == {0, 1}
CliffInputs == {0, 1, 2}
EndInputs == {1, 2}
\* inputs of init and create_stream when several streams share the contract
SharedAdminInputs == {"carol"}
SharedRecipientInputs == {"bob"}
SharedDepositInputs == {2, MintAmount + 1}
SharedRateInputs == {1}
SharedStartInputs == {0}
SharedCliffInputs == {0}
SharedEndInputs == {2}
\* stream ids passed to the entry points (the last one is never allocated)
IdInputs == 0 .. MaxStreams

\* ------------------------------------------------------------------------
\* Data types (lib.rs)
\* ------------------------------------------------------------------------

StreamStatus == {"Active", "Paused", "Completed", "Cancelled"}

Stream(id, sender, recipient, deposit, rate, start, cliff, end, withdrawn, status) ==
    [stream_id |-> id, sender |-> sender, recipient |-> recipient,
     deposit_amount |-> deposit, rate_per_second |-> rate,
     start_time |-> start, cliff_time |-> cliff, end_time |-> end,
     withdrawn_amount |-> withdrawn, status |-> status]

\* the environment of a call: instance storage, token ledger, ledger time, build
Env == [admin |-> admin, token |-> token, stream_count |-> stream_count, streams |-> streams, bal |-> bal, now |-> now, overflow_checks |-> overflow_checks]

\* payloads of published events
I128Data(amount) == [variant |-> "i128", value |-> amount]
StreamEvent(variant, stream_id) == [variant |-> variant, value |-> stream_id]
Event(topic, stream_id, data) == [topic |-> topic, stream_id |-> stream_id, data |-> data]

Ok(w, ret, events) == [err |-> "", w |-> w, ret |-> ret, events |-> events]
Panic(msg, w) == [err |-> msg, w |-> w, ret |-> <<>>, events |-> <<>>]

\* ------------------------------------------------------------------------
\* i128 arithmetic
\* ------------------------------------------------------------------------

Overflows(x) == x < I128Min \/ x > I128Max
Wrap(x) == ((x - I128Min) % (2 ^ I128Bits)) + I128Min
Min(a, b) == IF a < b THEN a ELSE b
Max(a, b) == IF a > b THEN a ELSE b

\* ------------------------------------------------------------------------
\* accrual.rs
\* ------------------------------------------------------------------------

\* calculate_accrued_amount without the cliff gate
calculate_accrued_amount_no_cliff(start_time, cliff_time, end_time, rate_per_second, deposit_amount, current_time) ==
    IF start_time >= end_time \/ rate_per_second < 0 THEN 0
    ELSE LET elapsed_now == Min(current_time, end_time) IN
         IF elapsed_now < start_time THEN 0
         ELSE LET elapsed_seconds == elapsed_now - start_time
                  product == elapsed_seconds * rate_per_second
                  accrued == IF Overflows(product) THEN deposit_amount ELSE product
              IN Max(Min(accrued, deposit_amount), 0)

\* calculate_accrued_amount counting the time past end_time
calculate_accrued_amount_uncapped_time(start_time, cliff_time, end_time, rate_per_second, deposit_amount, current_time) ==
    IF current_time < cliff_time THEN 0
    ELSE IF start_time >= end_time \/ rate_per_second < 0 THEN 0
    ELSE IF current_time < start_time THEN 0
    ELSE LET elapsed_seconds == current_time - start_time
             product == elapsed_seconds * rate_per_second
             accrued == IF Overflows(product) THEN deposit_amount ELSE product
         IN Max(Min(accrued, deposit_amount), 0)

\* calculate_accrued_amount without the cap at deposit_amount
calculate_accrued_amount_unclamped(start_time, cliff_time, end_time, rate_per_second, deposit_amount, current_time) ==
    IF current_time < cliff_time THEN 0
    ELSE IF start_time >= end_time \/ rate_per_second < 0 THEN 0
    ELSE LET elapsed_now == Min(current_time, end_time) IN
         IF elapsed_now < start_time THEN 0
         ELSE LET elapsed_seconds == elapsed_now - start_time
                  product == elapsed_seconds * rate_per_second
                  accrued == IF Overflows(product) THEN deposit_amount ELSE product
              IN Max(accrued, 0)

\* calculate_accrued_amount with a wrapping multiplication
calculate_accrued_amount_wrapping(start_time, cliff_time, end_time, rate_per_second, deposit_amount, current_time) ==
    IF current_time < cliff_time THEN 0
    ELSE IF start_time >= end_time \/ rate_per_second < 0 THEN 0
    ELSE LET elapsed_now == Min(current_time, end_time) IN
         IF elapsed_now < start_time THEN 0
         ELSE LET elapsed_seconds == elapsed_now - start_time
                  accrued == Wrap(elapsed_seconds * rate_per_second)
              IN Max(Min(accrued, deposit_amount), 0)

calculate_accrued_amount(start_time, cliff_time, end_time, rate_per_second, deposit_amount, current_time) ==
    IF current_time < cliff_time THEN 0
    ELSE IF start_time >= end_time \/ rate_per_second < 0 THEN 0
    ELSE LET elapsed_now == Min(current_time, end_time) IN
         IF elapsed_now < start_time THEN 0
         ELSE LET elapsed_seconds == elapsed_now - start_time
                  product == elapsed_seconds * rate_per_second
                  accrued == IF Overflows(product) THEN deposit_amount ELSE product
              IN Max(Min(accrued, deposit_amount), 0)

\* arguments of a direct call of the engine: every order of the three times,
\* amounts of either sign and at the ends of the i128 range
EngineTimeInputs == 0 .. MaxTime
EngineRateInputs == {-1, 0, 1, 2, I128Max}
EngineDepositInputs == {-1, 0, 1, 3, I128Max}
\* no call made: the state of the engine variable in the contract's behaviours
EngineIdle == [start_time |-> 0, cliff_time |-> 0, end_time |-> 0, rate_per_second |-> 0, deposit_amount |-> 0, current_time |-> 0, ret |-> <<>>]

\* ------------------------------------------------------------------------
\* Storage helpers (lib.rs)
\* ------------------------------------------------------------------------

has_admin(w) == w.admin # NoAddr
get_stream_count(w) == w.stream_count
set_stream_count(w, count) == [w EXCEPT !.stream_count = count]
has_stream(w, stream_id) == stream_id \in DOMAIN w.streams
load_stream(w, stream_id) == w.streams[stream_id]
\* save_stream under a storage key that ignores the stream id
save_stream_one_key(w, stream) ==
    [w EXCEPT !.streams = [i \in (DOMAIN w.streams) \cup {stream.stream_id} |-> stream]]

save_stream(w, stream) ==
    [w EXCEPT !.streams = [i \in (DOMAIN w.streams) \cup {stream.stream_id} |->
                              IF i = stream.stream_id THEN stream ELSE w.streams[i]]]

\* token::Client::transfer of the Stellar asset contract: it moves amount, or
\* fails and moves nothing when amount is negative or exceeds from's balance
can_transfer(w, from, amount) == amount >= 0 /\ w.bal[from] >= amount
transfer(w, from, to, amount) ==
    [w EXCEPT !.bal = [a \in DOMAIN w.bal |->
        IF a = from /\ a = to THEN w.bal[a]
        ELSE IF a = from THEN w.bal[a] - amount
        ELSE IF a = to THEN w.bal[a] + amount
        ELSE w.bal[a]]]

\* Address::require_auth: the call carries the capability of one account
require_auth(caller, address) == caller = address

\* ------------------------------------------------------------------------
\* Entry points (lib.rs)
\* ------------------------------------------------------------------------

\* init without the check that the contract is not initialised yet
init_unguarded(w, tok, adm) ==
    Ok([w EXCEPT !.admin = adm, !.token = tok, !.stream_count = 0], <<>>, <<>>)

\* init resetting the stream counter before it refuses a second initialisation
init_resets_count(w, tok, adm) ==
    IF has_admin(w) THEN Panic("already initialised", set_stream_count(w, 0))
    ELSE Ok([w EXCEPT !.admin = adm, !.token = tok, !.stream_count = 0], <<>>, <<>>)

init(w, tok, adm) ==
    IF has_admin(w) THEN Panic("already initialised", w)
    ELSE Ok([w EXCEPT !.admin = adm, !.token = tok, !.stream_count = 0], <<>>, <<>>)

\* create_stream without the assertion on cliff_time
create_stream_no_cliff_check(w, caller, sender, recipient, deposit_amount, rate_per_second, start_time, cliff_time, end_time) ==
    IF ~require_auth(caller, sender) THEN Panic("unauthorized", w)
    ELSE IF ~(deposit_amount > 0) THEN Panic("deposit_amount must be positive", w)
    ELSE IF ~(rate_per_second > 0) THEN Panic("rate_per_second must be positive", w)
    ELSE IF ~(start_time < end_time) THEN Panic("start_time must be before end_time", w)
    ELSE IF w.token = NoAddr THEN Panic("contract not initialised: missing token", w)
    ELSE IF ~can_transfer(w, sender, deposit_amount) THEN Panic("transfer failed", w)
    ELSE LET w1 == transfer(w, sender, Holding, deposit_amount)
             stream_id == get_stream_count(w1)
             w2 == set_stream_count(w1, stream_id + 1)
             stream == Stream(stream_id, sender, recipient, deposit_amount, rate_per_second,
                              start_time, cliff_time, end_time, 0, "Active")
             w3 == save_stream(w2, stream)
         IN Ok(w3, <<stream_id>>, <<Event("created", stream_id, I128Data(deposit_amount))>>)

\* create_stream allocating the id before it moves the deposit
create_stream_count_first(w, caller, sender, recipient, deposit_amount, rate_per_second, start_time, cliff_time, end_time) ==
    IF ~require_auth(caller, sender) THEN Panic("unauthorized", w)
    ELSE IF ~(deposit_amount > 0) THEN Panic("deposit_amount must be positive", w)
    ELSE IF ~(rate_per_second > 0) THEN Panic("rate_per_second must be positive", w)
    ELSE IF ~(start_time < end_time) THEN Panic("start_time must be before end_time", w)
    ELSE IF ~(cliff_time >= start_time /\ cliff_time <= end_time)
         THEN Panic("cliff_time must be within [start_time, end_time]", w)
    ELSE IF w.token = NoAddr THEN Panic("contract not initialised: missing token", w)
    ELSE LET stream_id == get_stream_count(w)
             w1 == set_stream_count(w, stream_id + 1)
             stream == Stream(stream_id, sender, recipient, deposit_amount, rate_per_second,
                              start_time, cliff_time, end_time, 0, "Active")
         IN IF ~can_transfer(w1, sender, deposit_amount) THEN Panic("transfer failed", w1)
            ELSE Ok(save_stream(transfer(w1, sender, Holding, deposit_amount), stream), <<stream_id>>,
                    <<Event("created", stream_id, I128Data(deposit_amount))>>)

create_stream(w, caller, sender, recipient, deposit_amount, rate_per_second, start_time, cliff_time, end_time) ==
    IF ~require_auth(caller, sender) THEN Panic("unauthorized", w)
    ELSE IF ~(deposit_amount > 0) THEN Panic("deposit_amount must be positive", w)
    ELSE IF ~(rate_per_second > 0) THEN Panic("rate_per_second must be positive", w)
    ELSE IF ~(start_time < end_time) THEN Panic("start_time must be before end_time", w)
    ELSE IF ~(cliff_time >= start_time /\ cliff_time <= end_time)
         THEN Panic("cliff_time must be within [start_time, end_time]", w)
    ELSE IF w.token = NoAddr THEN Panic("contract not initialised: missing token", w)
    ELSE IF ~can_transfer(w, sender, deposit_amount) THEN Panic("transfer failed", w)
    ELSE LET w1 == transfer(w, sender, Holding, deposit_amount)
             stream_id == get_stream_count(w1)
             w2 == set_stream_count(w1, stream_id + 1)
             stream == Stream(stream_id, sender, recipient, deposit_amount, rate_per_second,
                              start_time, cliff_time, end_time, 0, "Active")
             w3 == save_stream(w2, stream)
         IN Ok(w3, <<stream_id>>, <<Event("created", stream_id, I128Data(deposit_amount))>>)

\* require_sender_or_admin demanding no authorisation when sender is not the admin
require_sender_or_admin_unchecked(w, caller, sender) ==
    IF ~has_admin(w) THEN "contract not initialised: missing admin"
    ELSE IF sender = w.admin
         THEN (IF require_auth(caller, sender) THEN "" ELSE "unauthorized")
         ELSE ""

\* "" when the capability check passes, else the panic message
require_sender_or_admin(w, caller, sender) ==
    IF ~has_admin(w) THEN "contract not initialised: missing admin"
    ELSE IF sender = w.admin
         THEN (IF require_auth(caller, sender) THEN "" ELSE "unauthorized")
         ELSE (IF require_auth(caller, sender) THEN "" ELSE "unauthorized")

\* pause_stream without the assertion that the stream is Active
pause_stream_any_status(w, caller, stream_id) ==
    IF ~has_stream(w, stream_id) THEN Panic("stream not found", w)
    ELSE LET stream == load_stream(w, stream_id)
             auth == require_sender_or_admin(w, caller, stream.sender)
         IN IF auth # "" THEN Panic(auth, w)
            ELSE Ok(save_stream(w, [stream EXCEPT !.status = "Paused"]), <<>>,
                    <<Event("paused", stream_id, StreamEvent("Paused", stream_id))>>)

pause_stream(w, caller, stream_id) ==
    IF ~has_stream(w, stream_id) THEN Panic("stream not found", w)
    ELSE LET stream == load_stream(w, stream_id)
             auth == require_sender_or_admin(w, caller, stream.sender)
         IN IF auth # "" THEN Panic(auth, w)
            ELSE IF stream.status # "Active" THEN Panic("stream is not active", w)
            ELSE Ok(save_stream(w, [stream EXCEPT !.status = "Paused"]), <<>>,
                    <<Event("paused", stream_id, StreamEvent("Paused", stream_id))>>)

resume_stream(w, caller, stream_id) ==
    IF ~has_stream(w, stream_id) THEN Panic("stream not found", w)
    ELSE LET stream == load_stream(w, stream_id)
             auth == require_sender_or_admin(w, caller, stream.sender)
         IN IF auth # "" THEN Panic(auth, w)
            ELSE IF stream.status # "Paused" THEN Panic("stream is not paused", w)
            ELSE Ok(save_stream(w, [stream EXCEPT !.status = "Active"]), <<>>,
                    <<Event("resumed", stream_id, StreamEvent("Resumed", stream_id))>>)

\* calculate_accrued with the clock stopped while the stream is Paused
calculate_accrued_frozen_on_pause(w, stream_id) ==
    IF ~has_stream(w, stream_id) THEN Panic("stream not found", w)
    ELSE LET stream == load_stream(w, stream_id) IN
         IF stream.status = "Paused" THEN Ok(w, <<stream.withdrawn_amount>>, <<>>)
         ELSE IF w.now < stream.cliff_time THEN Ok(w, <<0>>, <<>>)
         ELSE LET elapsed == IF w.now >= stream.start_time THEN w.now - stream.start_time ELSE 0
                  product == elapsed * stream.rate_per_second
              IN IF Overflows(product) /\ w.overflow_checks
                 THEN Panic("attempt to multiply with overflow", w)
                 ELSE LET accrued == Wrap(product) IN
                      IF accrued > stream.deposit_amount
                      THEN Ok(w, <<stream.deposit_amount>>, <<>>)
                      ELSE Ok(w, <<accrued>>, <<>>)

\* calculate_accrued answering 0 for an id without a record
calculate_accrued_unknown_is_zero(w, stream_id) ==
    IF ~has_stream(w, stream_id) THEN Ok(w, <<0>>, <<>>)
    ELSE LET stream == load_stream(w, stream_id) IN
         IF w.now < stream.cliff_time THEN Ok(w, <<0>>, <<>>)
         ELSE LET elapsed == IF w.now >= stream.start_time THEN w.now - stream.start_time ELSE 0
                  product == elapsed * stream.rate_per_second
              IN IF Overflows(product) /\ w.overflow_checks
                 THEN Panic("attempt to multiply with overflow", w)
                 ELSE LET accrued == Wrap(product) IN
                      IF accrued > stream.deposit_amount
                      THEN Ok(w, <<stream.deposit_amount>>, <<>>)
                      ELSE Ok(w, <<accrued>>, <<>>)

calculate_accrued(w, stream_id) ==
    IF ~has_stream(w, stream_id) THEN Panic("stream not found", w)
    ELSE LET stream == load_stream(w, stream_id) IN
         IF w.now < stream.cliff_time THEN Ok(w, <<0>>, <<>>)
         ELSE LET elapsed == IF w.now >= stream.start_time THEN w.now - stream.start_time ELSE 0
                  product == elapsed * stream.rate_per_second
              IN IF Overflows(product) /\ w.overflow_checks
                 THEN Panic("attempt to multiply with overflow", w)
                 ELSE LET accrued == Wrap(product) IN
                      IF accrued > stream.deposit_amount
                      THEN Ok(w, <<stream.deposit_amount>>, <<>>)
                      ELSE Ok(w, <<accrued>>, <<>>)

\* the cancel steps without the refund transfer
cancel_from_accrual_no_refund(w, stream_id, stream) ==
    LET acc == calculate_accrued(w, stream_id) IN
    IF acc.err # "" THEN Panic(acc.err, w)
    ELSE Ok(save_stream(w, [stream EXCEPT !.status = "Cancelled"]), <<>>,
            <<Event("cancelled", stream_id, StreamEvent("Cancelled", stream_id))>>)

\* steps 3 to 7 of cancel_stream, shared verbatim by cancel_stream_as_admin
cancel_from_accrual(w, stream_id, stream) ==
    LET acc == calculate_accrued(w, stream_id) IN
    IF acc.err # "" THEN Panic(acc.err, w)
    ELSE LET accrued == acc.ret[1]
             difference == stream.deposit_amount - accrued
         IN IF Overflows(difference) /\ w.overflow_checks
            THEN Panic("attempt to subtract with overflow", w)
            ELSE LET unstreamed == Wrap(difference) IN
                 IF unstreamed > 0 /\ w.token = NoAddr
                 THEN Panic("contract not initialised: missing token", w)
                 ELSE IF unstreamed > 0 /\ ~can_transfer(w, Holding, unstreamed)
                 THEN Panic("transfer failed", w)
                 ELSE LET w1 == IF unstreamed > 0
                                THEN transfer(w, Holding, stream.sender, unstreamed)
                                ELSE w
                          w2 == save_stream(w1, [stream EXCEPT !.status = "Cancelled"])
                      IN Ok(w2, <<>>,
                            <<Event("cancelled", stream_id, StreamEvent("Cancelled", stream_id))>>)

\* cancel_stream refusing only Completed streams
cancel_stream_not_completed(w, caller, stream_id) ==
    IF ~has_stream(w, stream_id) THEN Panic("stream not found", w)
    ELSE LET stream == load_stream(w, stream_id)
             auth == require_sender_or_admin(w, caller, stream.sender)
         IN IF auth # "" THEN Panic(auth, w)
            ELSE IF stream.status = "Completed"
                 THEN Panic("stream must be active or paused to cancel", w)
            ELSE cancel_from_accrual(w, stream_id, stream)

cancel_stream(w, caller, stream_id) ==
    IF ~has_stream(w, stream_id) THEN Panic("stream not found", w)
    ELSE LET stream == load_stream(w, stream_id)
             auth == require_sender_or_admin(w, caller, stream.sender)
         IN IF auth # "" THEN Panic(auth, w)
            ELSE IF ~(stream.status = "Active" \/ stream.status = "Paused")
                 THEN Panic("stream must be active or paused to cancel", w)
            ELSE cancel_from_accrual(w, stream_id, stream)

cancel_stream_as_admin(w, caller, stream_id) ==
    IF ~has_admin(w) THEN Panic("contract not initialised: missing admin", w)
    ELSE IF ~require_auth(caller, w.admin) THEN Panic("unauthorized", w)
    ELSE IF ~has_stream(w, stream_id) THEN Panic("stream not found", w)
    ELSE LET stream == load_stream(w, stream_id) IN
         IF ~(stream.status = "Active" \/ stream.status = "Paused")
         THEN Panic("stream must be active or paused to cancel", w)
         ELSE cancel_from_accrual(w, stream_id, stream)

\* withdraw_pay persisting the new withdrawn_amount before it pays
withdraw_pay_save_first(w, stream_id, stream, withdrawable) ==
    IF w.token = NoAddr THEN Panic("contract not initialised: missing token", w)
    ELSE LET withdrawn == Wrap(stream.withdrawn_amount + withdrawable)
             completed == /\ stream.status = "Active"
                          /\ w.now >= stream.end_time
                          /\ withdrawn = stream.deposit_amount
             stream1 == [stream EXCEPT !.withdrawn_amount = withdrawn,
                            !.status = IF completed THEN "Completed" ELSE @]
             w1 == save_stream(w, stream1)
         IN IF ~can_transfer(w1, Holding, withdrawable) THEN Panic("transfer failed", w1)
            ELSE Ok(transfer(w1, Holding, stream.recipient, withdrawable), <<withdrawable>>,
                    <<Event("withdrew", stream_id, I128Data(withdrawable))>>)

\* withdraw_pay publishing the running total instead of the amount paid
withdraw_pay_event_total(w, stream_id, stream, withdrawable) ==
    IF w.token = NoAddr THEN Panic("contract not initialised: missing token", w)
    ELSE IF ~can_transfer(w, Holding, withdrawable) THEN Panic("transfer failed", w)
    ELSE LET w1 == transfer(w, Holding, stream.recipient, withdrawable)
             sum == stream.withdrawn_amount + withdrawable
         IN IF Overflows(sum) /\ w.overflow_checks
            THEN Panic("attempt to add with overflow", w1)
            ELSE LET withdrawn == Wrap(sum)
                     completed == /\ stream.status = "Active"
                                  /\ w.now >= stream.end_time
                                  /\ withdrawn = stream.deposit_amount
                     stream1 == [stream EXCEPT !.withdrawn_amount = withdrawn,
                                    !.status = IF completed THEN "Completed" ELSE @]
                 IN Ok(save_stream(w1, stream1), <<withdrawable>>,
                       <<Event("withdrew", stream_id, I128Data(withdrawn))>>)

\* withdraw_pay removing the record of a stream once it is completed
withdraw_pay_removes_completed(w, stream_id, stream, withdrawable) ==
    IF w.token = NoAddr THEN Panic("contract not initialised: missing token", w)
    ELSE IF ~can_transfer(w, Holding, withdrawable) THEN Panic("transfer failed", w)
    ELSE LET w1 == transfer(w, Holding, stream.recipient, withdrawable)
             sum == stream.withdrawn_amount + withdrawable
         IN IF Overflows(sum) /\ w.overflow_checks
            THEN Panic("attempt to add with overflow", w1)
            ELSE LET withdrawn == Wrap(sum)
                     completed == /\ stream.status = "Active"
                                  /\ w.now >= stream.end_time
                                  /\ withdrawn = stream.deposit_amount
                     stream1 == [stream EXCEPT !.withdrawn_amount = withdrawn]
                     w2 == IF completed
                           THEN [w1 EXCEPT !.streams = [i \in (DOMAIN w1.streams) \ {stream_id} |-> w1.streams[i]]]
                           ELSE save_stream(w1, stream1)
                 IN Ok(w2, <<withdrawable>>,
                       <<Event("withdrew", stream_id, I128Data(withdrawable))>>)

\* withdraw_pay storing the amount paid in place of the running total
withdraw_pay_overwrites_withdrawn(w, stream_id, stream, withdrawable) ==
    IF w.token = NoAddr THEN Panic("contract not initialised: missing token", w)
    ELSE IF ~can_transfer(w, Holding, withdrawable) THEN Panic("transfer failed", w)
    ELSE LET w1 == transfer(w, Holding, stream.recipient, withdrawable)
             withdrawn == withdrawable
             completed == /\ stream.status = "Active"
                          /\ w.now >= stream.end_time
                          /\ withdrawn = stream.deposit_amount
             stream1 == [stream EXCEPT !.withdrawn_amount = withdrawn,
                            !.status = IF completed THEN "Completed" ELSE @]
         IN Ok(save_stream(w1, stream1), <<withdrawable>>,
               <<Event("withdrew", stream_id, I128Data(withdrawable))>>)

\* withdraw_pay completing a fully withdrawn stream whatever its status
withdraw_pay_completes_cancelled(w, stream_id, stream, withdrawable) ==
    IF w.token = NoAddr THEN Panic("contract not initialised: missing token", w)
    ELSE IF ~can_transfer(w, Holding, withdrawable) THEN Panic("transfer failed", w)
    ELSE LET w1 == transfer(w, Holding, stream.recipient, withdrawable)
             sum == stream.withdrawn_amount + withdrawable
         IN IF Overflows(sum) /\ w.overflow_checks
            THEN Panic("attempt to add with overflow", w1)
            ELSE LET withdrawn == Wrap(sum)
                     completed == /\ w.now >= stream.end_time
                                  /\ withdrawn = stream.deposit_amount
                     stream1 == [stream EXCEPT !.withdrawn_amount = withdrawn,
                                    !.status = IF completed THEN "Completed" ELSE @]
                 IN Ok(save_stream(w1, stream1), <<withdrawable>>,
                       <<Event("withdrew", stream_id, I128Data(withdrawable))>>)

\* withdraw from the transfer on: payment, bookkeeping, completion, event
withdraw_pay(w, stream_id, stream, withdrawable) ==
    IF w.token = NoAddr THEN Panic("contract not initialised: missing token", w)
    ELSE IF ~can_transfer(w, Holding, withdrawable) THEN Panic("transfer failed", w)
    ELSE LET w1 == transfer(w, Holding, stream.recipient, withdrawable)
             sum == stream.withdrawn_amount + withdrawable
         IN IF Overflows(sum) /\ w.overflow_checks
            THEN Panic("attempt to add with overflow", w1)
            ELSE LET withdrawn == Wrap(sum)
                     completed == /\ stream.status = "Active"
                                  /\ w.now >= stream.end_time
                                  /\ withdrawn = stream.deposit_amount
                     stream1 == [stream EXCEPT !.withdrawn_amount = withdrawn,
                                    !.status = IF completed THEN "Completed" ELSE @]
                 IN Ok(save_stream(w1, stream1), <<withdrawable>>,
                       <<Event("withdrew", stream_id, I128Data(withdrawable))>>)

\* withdraw demanding the sender's authorisation instead of the recipient's
withdraw_sender_auth(w, caller, stream_id) ==
    IF ~has_stream(w, stream_id) THEN Panic("stream not found", w)
    ELSE LET stream == load_stream(w, stream_id) IN
         IF ~require_auth(caller, stream.sender) THEN Panic("unauthorized", w)
         ELSE IF ~(stream.status # "Completed") THEN Panic("stream already completed", w)
         ELSE LET acc == calculate_accrued(w, stream_id) IN
              IF acc.err # "" THEN Panic(acc.err, w)
              ELSE LET difference == acc.ret[1] - stream.withdrawn_amount IN
                   IF Overflows(difference) /\ w.overflow_checks
                   THEN Panic("attempt to subtract with overflow", w)
                   ELSE LET withdrawable == Wrap(difference) IN
                        IF ~(withdrawable > 0) THEN Panic("nothing to withdraw", w)
                        ELSE withdraw_pay(w, stream_id, stream, withdrawable)

\* withdraw without the check that the stream is not Completed
withdraw_no_completed_check(w, caller, stream_id) ==
    IF ~has_stream(w, stream_id) THEN Panic("stream not found", w)
    ELSE LET stream == load_stream(w, stream_id) IN
         IF ~require_auth(caller, stream.recipient) THEN Panic("unauthorized", w)
         ELSE LET acc == calculate_accrued(w, stream_id) IN
              IF acc.err # "" THEN Panic(acc.err, w)
              ELSE LET difference == acc.ret[1] - stream.withdrawn_amount IN
                   IF Overflows(difference) /\ w.overflow_checks
                   THEN Panic("attempt to subtract with overflow", w)
                   ELSE LET withdrawable == Wrap(difference) IN
                        IF ~(withdrawable > 0) THEN Panic("nothing to withdraw", w)
                        ELSE withdraw_pay(w, stream_id, stream, withdrawable)

withdraw(w, caller, stream_id) ==
    IF ~has_stream(w, stream_id) THEN Panic("stream not found", w)
    ELSE LET stream == load_stream(w, stream_id) IN
         IF ~require_auth(caller, stream.recipient) THEN Panic("unauthorized", w)
         ELSE IF ~(stream.status # "Completed") THEN Panic("stream already completed", w)
         ELSE LET acc == calculate_accrued(w, stream_id) IN
              IF acc.err # "" THEN Panic(acc.err, w)
              ELSE LET difference == acc.ret[1] - stream.withdrawn_amount IN
                   IF Overflows(difference) /\ w.overflow_checks
                   THEN Panic("attempt to subtract with overflow", w)
                   ELSE LET withdrawable == Wrap(difference) IN
                        IF ~(withdrawable > 0) THEN Panic("nothing to withdraw", w)
                        ELSE withdraw_pay(w, stream_id, stream, withdrawable)

get_stream_state(w, stream_id) ==
    IF ~has_stream(w, stream_id) THEN Panic("stream not found", w)
    ELSE Ok(w, <<load_stream(w, stream_id)>>, <<>>)

\* ------------------------------------------------------------------------
\* State machine: one action per entry point, plus the ledger clock
\* ------------------------------------------------------------------------

Init ==
    /\ admin = NoAddr
    /\ token = NoAddr
    /\ stream_count = 0
    /\ streams = << >>
    /\ bal = [a \in Accounts \cup {Holding} |-> IF a = "alice" THEN MintAmount ELSE 0]
    /\ now = 0
    /\ overflow_checks \in BOOLEAN
    /\ last = [op |-> "deploy", err |-> "", ret |-> <<>>, events |-> <<>>]
    /\ cancels = << >>
    /\ engine = EngineIdle

\* the call's result becomes the state: storage and ledger as the code left them
Commit(op, r) ==
    /\ admin' = r.w.admin
    /\ token' = r.w.token
    /\ stream_count' = r.w.stream_count
    /\ streams' = r.w.streams
    /\ bal' = r.w.bal
    /\ last' = [op |-> op, err |-> r.err, ret |-> r.ret, events |-> r.events]
    /\ cancels' = IF r.err = "" /\ op \in {"cancel_stream", "cancel_stream_as_admin"}
                  THEN LET id == r.events[1].stream_id
                           entry == [at |-> now, refund |-> bal[Holding] - r.w.bal[Holding]]
                       IN [i \in (DOMAIN cancels) \cup {id} |-> IF i = id THEN entry ELSE cancels[i]]
                  ELSE cancels
    /\ UNCHANGED <<now, overflow_checks, engine>>

CallInit ==
    \E tok \in Tokens, adm \in AdminInputs :
        Commit("init", init(Env, tok, adm))

\* the contract's first stream, over every class of input
CallCreateStream ==
    /\ stream_count = 0
    /\ \E caller \in Accounts, sender \in SenderInputs, recipient \in RecipientInputs,
          deposit \in DepositInputs, rate \in RateInputs,
          start \in StartInputs, cliff \in CliffInputs, end \in EndInputs :
        Commit("create_stream",
               create_stream(Env, caller, sender, recipient, deposit, rate, start, cliff, end))

CallInitShared ==
    \E tok \in Tokens, adm \in SharedAdminInputs :
        Commit("init", init(Env, tok, adm))

\* up to MaxStreams streams in the same contract
CallCreateStreamShared ==
    /\ stream_count < MaxStreams
    /\ \E caller \in Accounts, sender \in SenderInputs, recipient \in SharedRecipientInputs,
          deposit \in SharedDepositInputs, rate \in SharedRateInputs,
          start \in SharedStartInputs, cliff \in SharedCliffInputs, end \in SharedEndInputs :
        Commit("create_stream",
               create_stream(Env, caller, sender, recipient, deposit, rate, start, cliff, end))

CallPauseStream ==
    \E caller \in Accounts, stream_id \in IdInputs :
        Commit("pause_stream", pause_stream(Env, caller, stream_id))

CallResumeStream ==
    \E caller \in Accounts, stream_id \in IdInputs :
        Commit("resume_stream", resume_stream(Env, caller, stream_id))

CallCancelStream ==
    \E caller \in Accounts, stream_id \in IdInputs :
        Commit("cancel_stream", cancel_stream(Env, caller, stream_id))

CallCancelStreamAsAdmin ==
    \E caller \in Accounts, stream_id \in IdInputs :
        Commit("cancel_stream_as_admin", cancel_stream_as_admin(Env, caller, stream_id))

CallWithdraw ==
    \E caller \in Accounts, stream_id \in IdInputs :
        Commit("withdraw", withdraw(Env, caller, stream_id))

CallCalculateAccrued ==
    \E stream_id \in IdInputs :
        Commit("calculate_accrued", calculate_accrued(Env, stream_id))

CallGetStreamState ==
    \E stream_id \in IdInputs :
        Commit("get_stream_state", get_stream_state(Env, stream_id))

\* the ledger closes and its timestamp advances
Tick ==
    /\ now < MaxTime
    /\ now' = now + 1
    /\ last' = [op |-> "tick", err |-> "", ret |-> <<>>, events |-> <<>>]
    /\ UNCHANGED <<admin, token, stream_count, streams, bal, overflow_checks, cancels, engine>>

Next ==
    \/ CallInit
    \/ CallCreateStream
    \/ CallPauseStream
    \/ CallResumeStream
    \/ CallCancelStream
    \/ CallCancelStreamAsAdmin
    \/ CallWithdraw
    \/ CallCalculateAccrued
    \/ CallGetStreamState
    \/ Tick

Spec == Init /\ [][Next]_vars

NextShared ==
    \/ CallInitShared
    \/ CallCreateStreamShared
    \/ CallPauseStream
    \/ CallResumeStream
    \/ CallCancelStream
    \/ CallCancelStreamAsAdmin
    \/ CallWithdraw
    \/ Tick

\* every amount of these behaviours is at most MintAmount and every product at
\* most MaxTime, so no i128 operation overflows and the build mode is immaterial
InitShared == Init /\ overflow_checks = TRUE

SpecShared == InitShared /\ [][NextShared]_vars

\* a withdraw of stream_id that pays, and a resume of stream_id that succeeds
WithdrawTaken(stream_id) ==
    \E caller \in Accounts :
        /\ withdraw(Env, caller, stream_id).err = ""
        /\ Commit("withdraw", withdraw(Env, caller, stream_id))

ResumeTaken(stream_id) ==
    \E caller \in Accounts :
        /\ resume_stream(Env, caller, stream_id).err = ""
        /\ Commit("resume_stream", resume_stream(Env, caller, stream_id))

\* one stream of the shared shape in a contract of its own
CallCreateStreamAlone ==
    /\ stream_count = 0
    /\ \E caller \in Accounts, sender \in SenderInputs, recipient \in SharedRecipientInputs,
          deposit \in SharedDepositInputs, rate \in SharedRateInputs,
          start \in SharedStartInputs, cliff \in SharedCliffInputs, end \in SharedEndInputs :
        Commit("create_stream",
               create_stream(Env, caller, sender, recipient, deposit, rate, start, cliff, end))

NextFair ==
    \/ CallInitShared
    \/ CallCreateStreamAlone
    \/ CallPauseStream
    \/ CallResumeStream
    \/ CallCancelStream
    \/ CallCancelStreamAsAdmin
    \/ CallWithdraw
    \/ Tick

\* a single stream with a ledger that keeps closing, a recipient who withdraws
\* whenever something is withdrawable, and a sender or admin who resumes the
\* stream whenever it is paused
SpecFair ==
    /\ InitShared
    /\ [][NextFair]_vars
    /\ WF_vars(Tick)
    /\ SF_vars(WithdrawTaken(0))
    /\ WF_vars(ResumeTaken(0))

\* the accrual engine called on its own: a schedule is fixed, then the
\* function is applied to it at any current_time
InitEngine ==
    /\ admin = NoAddr
    /\ token = NoAddr
    /\ stream_count = 0
    /\ streams = << >>
    /\ bal = [a \in Accounts \cup {Holding} |-> 0]
    /\ now = 0
    /\ overflow_checks = TRUE
    /\ last = [op |-> "deploy", err |-> "", ret |-> <<>>, events |-> <<>>]
    /\ cancels = << >>
    /\ \E start \in EngineTimeInputs, cliff \in EngineTimeInputs, end \in EngineTimeInputs,
          rate \in EngineRateInputs, deposit \in EngineDepositInputs :
        engine = [start_time |-> start, cliff_time |-> cliff, end_time |-> end,
                  rate_per_second |-> rate, deposit_amount |-> deposit,
                  current_time |-> 0, ret |-> <<>>]

CallCalculateAccruedAmount ==
    /\ \E current_time \in EngineTimeInputs :
          engine' = [engine EXCEPT
                        !.current_time = current_time,
                        !.ret = <<calculate_accrued_amount(engine.start_time, engine.cliff_time, engine.end_time, engine.rate_per_second, engine.deposit_amount, current_time)>>]
    /\ UNCHANGED <<admin, token, stream_count, streams, bal, now, overflow_checks, last, cancels>>

NextEngine == CallCalculateAccruedAmount

SpecEngine == InitEngine /\ [][NextEngine]_vars

\* ------------------------------------------------------------------------
\* Claims
\* ------------------------------------------------------------------------

\* accrued(t) of a stream's schedule, as the accrual engine defines it
Accrued(s, t) == calculate_accrued_amount(s.start_time, s.cliff_time, s.end_time, s.rate_per_second, s.deposit_amount, t)

\* the step just taken was a call of op that returned
Returned(op) == last'.op = op /\ last'.err = ""
\* the stream a returned pause, resume, cancel or withdraw acted on
ActedId == last'.events[1].stream_id
CancelOps == {"cancel_stream", "cancel_stream_as_admin"}
Terminal == {"Cancelled", "Completed"}

\* C1: every stored stream has 0 <= withdrawn_amount <= accrued(now) <= deposit_amount
C1_WithdrawnWithinAccrued ==
    \A id \in DOMAIN streams :
        LET s == streams[id] IN
        /\ 0 <= s.withdrawn_amount
        /\ s.withdrawn_amount <= Accrued(s, now)
        /\ Accrued(s, now) <= s.deposit_amount

\* C2: a cancelled stream never pays its recipient more than accrued(cancel
\* time) in total, and once that much is withdrawn no withdraw on it returns
C2_CancelStopsAccrual ==
    /\ [](\A id \in DOMAIN cancels :
            streams[id].withdrawn_amount <= Accrued(streams[id], cancels[id].at))
    /\ [][(Returned("withdraw") /\ ActedId \in DOMAIN cancels) =>
            streams[ActedId].withdrawn_amount < Accrued(streams[ActedId], cancels[ActedId].at)]_vars

\* C3: a returned cancel moves exactly deposit_amount - accrued(now) from the
\* contract to the sender, sets Cancelled, keeps withdrawn_amount, and leaves
\* accrued(now) - withdrawn_amount for a withdraw at the same time to pay in full
C3_CancelSettles ==
    [][\A op \in CancelOps : Returned(op) =>
          LET s == streams[ActedId]
              accrued == Accrued(s, now)
              r == withdraw(Env', s.recipient, ActedId)
          IN /\ s.status \in {"Active", "Paused"}
             /\ bal[Holding] - bal'[Holding] = s.deposit_amount - accrued
             /\ bal'[s.sender] - bal[s.sender] = s.deposit_amount - accrued
             /\ streams'[ActedId] = [s EXCEPT !.status = "Cancelled"]
             /\ accrued - s.withdrawn_amount > 0 =>
                    (r.err = "" /\ r.ret = <<accrued - s.withdrawn_amount>>)]_vars

\* C4: withdraw never returns on a Paused stream, and after a returned resume a
\* withdraw at the same time returns when something is owed
C4_NoWithdrawWhilePaused ==
    [][/\ Returned("withdraw") => streams[ActedId].status # "Paused"
       /\ Returned("resume_stream") =>
              LET s == streams'[ActedId] IN
              Accrued(s, now) - s.withdrawn_amount > 0 =>
                  withdraw(Env', s.recipient, ActedId).err = ""]_vars

\* C5: a returned withdraw pays accrued(now) - withdrawn_amount, returns it and
\* leaves withdrawn_amount = accrued(now); when nothing is owed on a stream
\* that is not Completed, withdraw fails with "nothing to withdraw" and changes nothing
C5_WithdrawPaysAccrued ==
    /\ [][Returned("withdraw") =>
            LET s == streams[ActedId]
                owed == Accrued(s, now) - s.withdrawn_amount
            IN /\ bal'[s.recipient] - bal[s.recipient] = owed
               /\ bal[Holding] - bal'[Holding] = owed
               /\ last'.ret = <<owed>>
               /\ streams'[ActedId].withdrawn_amount = Accrued(s, now)]_vars
    /\ [](\A id \in DOMAIN streams :
            LET s == streams[id]
                r == withdraw(Env, s.recipient, id)
            IN (s.status # "Completed" /\ ~(Accrued(s, now) - s.withdrawn_amount > 0)) =>
                   (r.err = "nothing to withdraw" /\ r.w = Env))

\* C6: a returned withdraw sets Completed exactly when the resulting
\* withdrawn_amount >= deposit_amount, and otherwise keeps the status
C6_CompletedWhenFullyWithdrawn ==
    [][Returned("withdraw") =>
          LET s == streams[ActedId]
              t == streams'[ActedId]
          IN /\ (t.status = "Completed") <=> (t.withdrawn_amount >= t.deposit_amount)
             /\ t.withdrawn_amount < t.deposit_amount => t.status = s.status]_vars

\* C7: pause, resume and cancel (either path) on a Cancelled or Completed
\* stream fail and change nothing; such a stream is never Active or Paused
\* again and its cancel history (the refund it was paid) never changes
C7_TerminalRejects ==
    /\ [](\A id \in DOMAIN streams : streams[id].status \in Terminal =>
            \A caller \in Accounts :
                \A r \in {pause_stream(Env, caller, id), resume_stream(Env, caller, id),
                          cancel_stream(Env, caller, id), cancel_stream_as_admin(Env, caller, id)} :
                    r.err # "" /\ r.w = Env /\ r.events = <<>>)
    /\ [][\A id \in DOMAIN streams : streams[id].status \in Terminal =>
            /\ streams'[id].status \in Terminal
            /\ (id \in DOMAIN cancels) <=> (id \in DOMAIN cancels')
            /\ id \in DOMAIN cancels => cancels'[id] = cancels[id]]_vars

\* a cancel was just refused on a stream that had been cancelled with a refund
C7_Witness ==
    /\ last.op \in CancelOps
    /\ last.err = "stream must be active or paused to cancel"
    /\ \E id \in DOMAIN cancels : cancels[id].refund > 0

\* C8: withdraw on a Completed stream fails (for the recipient with "stream
\* already completed"), pays nothing and changes nothing; no step changes the
\* record of a Completed stream
C8_CompletedIsFinal ==
    /\ [](\A id \in DOMAIN streams : streams[id].status = "Completed" =>
            \A caller \in Accounts :
                LET r == withdraw(Env, caller, id) IN
                /\ r.err # "" /\ r.w = Env /\ r.events = <<>>
                /\ caller = streams[id].recipient => r.err = "stream already completed")
    /\ [][\A id \in DOMAIN streams : streams[id].status = "Completed" =>
            streams'[id] = streams[id]]_vars

\* the recipient's withdraw was just refused on a Completed stream
C8_Witness ==
    /\ last.op = "withdraw"
    /\ last.err = "stream already completed"
    /\ \E id \in DOMAIN streams : streams[id].status = "Completed"

\* C9: a call that fails leaves the Config, the id counter, every stream
\* record and every balance as they were, and publishes no event
C9_FailedCallChangesNothing ==
    [][last'.err # "" =>
          /\ admin' = admin /\ token' = token
          /\ stream_count' = stream_count
          /\ streams' = streams
          /\ bal' = bal
          /\ last'.events = <<>>]_vars

\* a withdraw that passed every check just failed in the token transfer
C9_Witness == last.op = "withdraw" /\ last.err = "transfer failed"

\* C10: a create whose deposit transfer fails advances no counter, stores no
\* record and moves no balance; a create that returns takes the current
\* counter value as its id, so it receives the id the failed call would have
C10_CreateTransfersFirst ==
    [][/\ (last'.op = "create_stream" /\ last'.err = "transfer failed") =>
              (stream_count' = stream_count /\ streams' = streams /\ bal' = bal)
       /\ Returned("create_stream") =>
              /\ last'.ret = <<stream_count>>
              /\ stream_count \notin DOMAIN streams
              /\ DOMAIN streams' = (DOMAIN streams) \cup {stream_count}
              /\ stream_count' = stream_count + 1]_vars

\* a create just failed in the deposit transfer while a stream already exists
C10_Witness ==
    /\ last.op = "create_stream"
    /\ last.err = "transfer failed"
    /\ stream_count > 0

\* the panic messages of create_stream's argument assertions
CreateValidationErrors == {"deposit_amount must be positive", "rate_per_second must be positive", "start_time must be before end_time", "cliff_time must be within [start_time, end_time]"}

\* C11: create fails and changes nothing when deposit_amount <= 0, or
\* rate_per_second <= 0, or start_time >= end_time, or cliff_time lies outside
\* [start_time, end_time]; a funded create of an otherwise valid stream returns
\* when cliff_time = start_time and when cliff_time = end_time
C11_CreateValidates ==
    /\ [](\A sender \in SenderInputs, recipient \in SharedRecipientInputs,
       deposit \in {-1, 0, 2}, rate \in {-1, 0, 1},
       start \in StartInputs, cliff \in CliffInputs, end \in EndInputs :
        LET r == create_stream(Env, sender, sender, recipient, deposit, rate, start, cliff, end) IN
        /\ (deposit <= 0 \/ rate <= 0 \/ start >= end \/ cliff < start \/ cliff > end) =>
               (r.err # "" /\ r.w = Env /\ r.events = <<>>)
        /\ (/\ deposit > 0 /\ rate > 0 /\ start < end
            /\ cliff \in {start, end}
            /\ sender # recipient
            /\ deposit >= rate * (end - start)
            /\ token # NoAddr
            /\ bal[sender] >= deposit) => r.err = "")
    /\ [][(last'.op = "create_stream" /\ last'.err \in CreateValidationErrors) =>
            (stream_count' = stream_count /\ streams' = streams /\ bal' = bal /\ last'.events = <<>>)]_vars

\* a create was just refused for a cliff outside the schedule, and changed nothing
C11_Witness ==
    /\ last.op = "create_stream"
    /\ last.err = "cliff_time must be within [start_time, end_time]"
    /\ stream_count = 0 /\ bal[Holding] = 0

\* C12: no create returns with deposit_amount < rate_per_second * (end_time -
\* start_time), so every stored stream's deposit covers its whole schedule
C12_DepositCoversSchedule ==
    \A id \in DOMAIN streams :
        LET s == streams[id] IN
        s.deposit_amount >= s.rate_per_second * (s.end_time - s.start_time)

\* C13: no create returns with sender = recipient, so every stored stream has
\* a recipient different from its sender
C13_SenderIsNotRecipient ==
    \A id \in DOMAIN streams : streams[id].sender # streams[id].recipient

\* C14: on every stored stream a pause, resume or cancel authorised by the
\* admin has the result (outcome, storage, balances, events) of the same
\* operation authorised by the stream's sender
C14_AdminPathMatchesSenderPath ==
    \A id \in DOMAIN streams :
        LET s == streams[id] IN
        has_admin(Env) =>
            /\ cancel_stream_as_admin(Env, admin, id) = cancel_stream(Env, s.sender, id)
            /\ pause_stream(Env, admin, id) = pause_stream(Env, s.sender, id)
            /\ resume_stream(Env, admin, id) = resume_stream(Env, s.sender, id)

\* C15: pause, resume and cancel (either entry point) called with the
\* authorisation of an account that is neither the stream's sender nor the
\* admin fail, and change no storage, no balance and publish no event
C15_StrangerCannotManage ==
    \A id \in DOMAIN streams :
        \A caller \in Accounts \ {streams[id].sender, admin} :
            \A r \in {pause_stream(Env, caller, id), resume_stream(Env, caller, id),
                      cancel_stream(Env, caller, id), cancel_stream_as_admin(Env, caller, id)} :
                r.err = "unauthorized" /\ r.w = Env /\ r.events = <<>>

\* a pause of an Active stream was just refused for lack of authorisation,
\* the sender being the admin
C15_Witness ==
    /\ last.op = "pause_stream"
    /\ last.err = "unauthorized"
    /\ \E id \in DOMAIN streams : streams[id].sender = admin /\ streams[id].status = "Active"

\* C16: a withdraw carrying the authorisation of any account other than the
\* stream's recipient fails and changes nothing; a withdraw that returns pays
\* the amount it returns to the recorded recipient, out of the contract, and
\* changes no other balance
C16_OnlyRecipientWithdraws ==
    /\ [](\A id \in DOMAIN streams :
            \A caller \in Accounts \ {streams[id].recipient} :
                LET r == withdraw(Env, caller, id) IN
                r.err = "unauthorized" /\ r.w = Env /\ r.events = <<>>)
    /\ [][Returned("withdraw") =>
            LET s == streams[ActedId] IN
            /\ last'.ret[1] > 0
            /\ bal'[s.recipient] = bal[s.recipient] + last'.ret[1]
            /\ bal'[Holding] = bal[Holding] - last'.ret[1]
            /\ \A a \in Accounts \ {s.recipient} : bal'[a] = bal[a]]_vars

\* a withdraw was just refused for lack of the recipient's authorisation while
\* the stream owed its recipient tokens that the contract holds
C16_Witness ==
    /\ last.op = "withdraw"
    /\ last.err = "unauthorized"
    /\ \E id \in DOMAIN streams :
          /\ streams[id].recipient # streams[id].sender
          /\ withdraw(Env, streams[id].recipient, id).err = ""

\* C17: a create that returns moves exactly deposit_amount from the sender to
\* the contract, leaves the recipient's balance unchanged, and stores under
\* the returned id a stream with the given sender, recipient and schedule,
\* withdrawn_amount = 0 and status Active
C17_CreateStoresAndFunds ==
    \A sender \in SenderInputs, recipient \in RecipientInputs,
       deposit \in {2, 3}, rate \in {1, I128Max},
       start \in StartInputs, cliff \in CliffInputs, end \in EndInputs :
        LET r == create_stream(Env, sender, sender, recipient, deposit, rate, start, cliff, end) IN
        r.err = "" =>
            LET id == r.ret[1] IN
            /\ r.w.bal[sender] = bal[sender] - deposit
            /\ r.w.bal[Holding] = bal[Holding] + deposit
            /\ r.w.bal[recipient] = bal[recipient]
            /\ id \notin DOMAIN streams
            /\ r.w.streams[id] = Stream(id, sender, recipient, deposit, rate, start, cliff, end, 0, "Active")
            /\ \A i \in DOMAIN streams : r.w.streams[i] = streams[i]

\* C18: the stored ids are exactly 0 .. stream_count - 1, each record carrying
\* its own id; a create that returns is given the current counter value and
\* advances the counter by one, and no other step (a failed create or a failed
\* re-initialisation included) changes the counter or removes an id
C18_IdsCountCreates ==
    /\ [](/\ DOMAIN streams = 0 .. (stream_count - 1)
          /\ Cardinality(DOMAIN streams) = stream_count
          /\ \A id \in DOMAIN streams : streams[id].stream_id = id)
    /\ [][/\ Returned("create_stream") =>
                (last'.ret = <<stream_count>> /\ stream_count' = stream_count + 1)
          /\ ~Returned("create_stream") => stream_count' = stream_count
          /\ DOMAIN streams \subseteq DOMAIN streams']_vars

\* a second initialisation was just refused after two streams had been created
C18_Witness ==
    /\ last.op = "init"
    /\ last.err = "already initialised"
    /\ stream_count > 1

\* C19: the first init stores the given token and admin; once they are stored
\* every init, whatever its arguments, fails with "already initialised" and
\* changes nothing, and no step of any entry point changes the token or the admin
C19_ConfigWriteOnce ==
    /\ [](\A tok \in Tokens, adm \in Accounts :
            LET r == init(Env, tok, adm) IN
            IF has_admin(Env)
            THEN r.err = "already initialised" /\ r.w = Env /\ r.events = <<>>
            ELSE r.err = "" /\ r.w.admin = adm /\ r.w.token = tok)
    /\ [][has_admin(Env) => (admin' = admin /\ token' = token)]_vars

\* a second initialisation was just refused while a stream exists
C19_Witness ==
    /\ last.op = "init"
    /\ last.err = "already initialised"
    /\ admin \in AdminInputs /\ token \in Tokens
    /\ DOMAIN streams # {}

\* C20: pause returns only on an Active stream and resume only on a Paused
\* one (for the sender they do return there); a returned pause sets Paused, a
\* returned resume sets Active, and either changes nothing else: no other
\* field of the stream, no other stream and no balance
C20_PauseResumeOnlyFlipStatus ==
    /\ [](\A id \in DOMAIN streams :
            LET s == streams[id] IN
            /\ \A caller \in Accounts :
                  /\ s.status # "Active" => pause_stream(Env, caller, id).err # ""
                  /\ s.status # "Paused" => resume_stream(Env, caller, id).err # ""
            /\ s.status = "Active" => pause_stream(Env, s.sender, id).err = ""
            /\ s.status = "Paused" => resume_stream(Env, s.sender, id).err = "")
    /\ [][/\ Returned("pause_stream") =>
                /\ streams[ActedId].status = "Active"
                /\ streams' = [streams EXCEPT ![ActedId].status = "Paused"]
                /\ bal' = bal
          /\ Returned("resume_stream") =>
                /\ streams[ActedId].status = "Paused"
                /\ streams' = [streams EXCEPT ![ActedId].status = "Active"]
                /\ bal' = bal]_vars

\* a stream with a withdrawal behind it has just been resumed, next to another
\* stream
C20_Witness ==
    /\ last.op = "resume_stream"
    /\ last.err = ""
    /\ streams[last.events[1].stream_id].status = "Active"
    /\ streams[last.events[1].stream_id].withdrawn_amount > 0
    /\ Cardinality(DOMAIN streams) > 1

\* the environment in which stream id, now Paused, had never been paused
NeverPaused(id) == save_stream(Env, [streams[id] EXCEPT !.status = "Active"])

RoundTrip(before, id, s) ==
    \A c \in {cancel_stream(Env', s.sender, id), cancel_stream_as_admin(Env', admin', id)} :
        /\ c.err = ""
        /\ c.w.bal = before
        /\ withdraw(c.w, s.recipient, id).err = "nothing to withdraw"

C23_ContractUsesEngine ==
    \A id \in DOMAIN streams :
        LET r == calculate_accrued(Env, id) IN
        r.err = "" /\ r.ret = <<Accrued(streams[id], now)>>

\* C24: for a stored stream with start_time < cliff_time, before the cliff the
\* recipient's withdraw fails with "nothing to withdraw"; from the cliff to
\* end_time the contract's accrued amount is min((now - start_time) *
\* rate_per_second, deposit_amount), and the first withdraw of an Active
\* stream pays all of it
C24_CliffGatesThenCountsFromStart ==
    \A id \in DOMAIN streams :
        LET s == streams[id]
            amount == Min((now - s.start_time) * s.rate_per_second, s.deposit_amount)
            acc == calculate_accrued(Env, id)
            w == withdraw(Env, s.recipient, id)
        IN s.start_time < s.cliff_time =>
            /\ (now < s.cliff_time /\ s.status # "Completed") =>
                   (w.err = "nothing to withdraw" /\ w.w = Env)
            /\ (s.cliff_time <= now /\ now <= s.end_time) =>
                   /\ acc.err = "" /\ acc.ret = <<amount>>
                   /\ (s.status = "Active" /\ s.withdrawn_amount = 0) =>
                          (w.err = "" /\ w.ret = <<amount>>
                           /\ w.w.bal[Holding] = bal[Holding] - amount)

\* a direct call of the engine has returned
EngineReturned == engine.ret # <<>>

\* C25: the engine returns 0 whenever current_time < cliff_time, whatever the
\* other arguments, also when current_time is past end_time
C25_EngineZeroBeforeCliff ==
    (EngineReturned /\ engine.current_time < engine.cliff_time) => engine.ret = <<0>>

\* the engine was called past end_time but before the cliff of a funded
\* schedule with a positive rate
C25_Witness ==
    /\ EngineReturned
    /\ engine.start_time < engine.end_time
    /\ engine.end_time < engine.current_time
    /\ engine.current_time < engine.cliff_time
    /\ engine.rate_per_second > 0
    /\ engine.deposit_amount > 0

\* the schedule of the call is valid: start < end, start <= cliff <= end, rate >= 0
EngineValidSchedule ==
    /\ engine.start_time < engine.end_time
    /\ engine.start_time <= engine.cliff_time
    /\ engine.cliff_time <= engine.end_time
    /\ engine.rate_per_second >= 0

\* rate * (end - start) capped at the deposit, over the unbounded integers
EngineTotal == Min(engine.rate_per_second * (engine.end_time - engine.start_time), engine.deposit_amount)

\* C26 (as stated): for every valid schedule and every current_time >= end_time
\* the engine returns min(rate * (end - start), deposit)
C26_EngineClosedFormAtEnd ==
    (EngineReturned /\ EngineValidSchedule /\ engine.current_time >= engine.end_time)
        => engine.ret = <<EngineTotal>>

\* C26 (amended): for every valid schedule with deposit >= 0 and every
\* current_time >= end_time, up to the largest time, the engine returns
\* min(rate * (end - start), deposit)
C26_EngineClosedFormAtEndFunded ==
    (EngineReturned /\ EngineValidSchedule /\ engine.deposit_amount >= 0
        /\ engine.current_time >= engine.end_time)
        => engine.ret = <<EngineTotal>>

\* the engine was called at the largest time, past the end of a valid schedule
\* whose deposit exceeds rate * (end - start) > 0
C26_Witness ==
    /\ EngineReturned
    /\ EngineValidSchedule
    /\ engine.current_time = MaxTime
    /\ engine.end_time < engine.current_time
    /\ engine.rate_per_second * (engine.end_time - engine.start_time) > 0
    /\ engine.rate_per_second * (engine.end_time - engine.start_time) < engine.deposit_amount
    /\ engine.ret = <<EngineTotal>>

\* C27: for every valid schedule with deposit >= 0 the engine's result lies in
\* [0, deposit], and of two calls the one at the later time returns no less,
\* also when the later call saturates on overflow
C27_EngineMonotoneAndBounded ==
    /\ [](EngineReturned /\ EngineValidSchedule /\ engine.deposit_amount >= 0
            => (0 <= engine.ret[1] /\ engine.ret[1] <= engine.deposit_amount))
    /\ [][(EngineReturned /\ EngineValidSchedule /\ engine.deposit_amount >= 0
            /\ engine.current_time <= engine'.current_time)
            => engine.ret[1] <= engine'.ret[1]]_vars

\* the engine was called on a valid funded schedule at a time where
\* elapsed * rate is out of the i128 range, one second after a call where it was not
C27_Witness ==
    /\ EngineReturned
    /\ EngineValidSchedule
    /\ engine.deposit_amount > 0
    /\ engine.cliff_time < engine.current_time
    /\ engine.current_time <= engine.end_time
    /\ Overflows((engine.current_time - engine.start_time) * engine.rate_per_second)
    /\ ~Overflows((engine.current_time - 1 - engine.start_time) * engine.rate_per_second)
    /\ engine.ret = <<engine.deposit_amount>>

\* elapsed seconds of the call, defined once the cliff, schedule and rate checks passed
EngineElapsed == Min(engine.current_time, engine.end_time) - engine.start_time

\* the call gets as far as the multiplication
EngineMultiplies ==
    /\ engine.current_time >= engine.cliff_time
    /\ engine.start_time < engine.end_time
    /\ engine.rate_per_second >= 0
    /\ EngineElapsed >= 0

\* C28: every call of the engine returns one i128 value; it is 0 when
\* start >= end or rate < 0; when elapsed * rate is out of the i128 range it is
\* the deposit, or 0 for a negative deposit
C28_EngineTotal ==
    EngineReturned =>
        /\ Len(engine.ret) = 1
        /\ engine.ret[1] \in I128Min .. I128Max
        /\ (engine.start_time >= engine.end_time \/ engine.rate_per_second < 0) => engine.ret = <<0>>
        /\ (EngineMultiplies /\ Overflows(EngineElapsed * engine.rate_per_second))
               => engine.ret = <<Max(engine.deposit_amount, 0)>>

\* the engine was called with the largest rate on a positive deposit smaller
\* than the rate, at a time where elapsed * rate is out of the i128 range
C28_Witness ==
    /\ EngineReturned
    /\ EngineMultiplies
    /\ engine.rate_per_second = I128Max
    /\ Overflows(EngineElapsed * engine.rate_per_second)
    /\ 0 < engine.deposit_amount
    /\ engine.deposit_amount < I128Max
    /\ engine.ret = <<engine.deposit_amount>>

\* the call published exactly one event with this topic for this stream if it
\* returned, and none if it panicked
OneEvent(r, topic, stream_id) ==
    IF r.err = ""
    THEN /\ Len(r.events) = 1
         /\ r.events[1].topic = topic
         /\ r.events[1].stream_id = stream_id
    ELSE r.events = <<>>

\* C29: a successful pause, resume, cancel or withdraw of stream id by any
\* caller publishes exactly one event, with topic paused, resumed, cancelled or
\* withdrew and that id, the withdrew event carrying the amount paid out of the
\* holding account; a successful create publishes exactly one created event
\* with the new stream's id and the amount deposited; a failed one publishes none
C29_OneEventPerSuccess ==
    /\ [](\A caller \in Accounts, id \in IdInputs :
            /\ OneEvent(pause_stream(Env, caller, id), "paused", id)
            /\ OneEvent(resume_stream(Env, caller, id), "resumed", id)
            /\ OneEvent(cancel_stream(Env, caller, id), "cancelled", id)
            /\ OneEvent(cancel_stream_as_admin(Env, caller, id), "cancelled", id)
            /\ LET r == withdraw(Env, caller, id) IN
               /\ OneEvent(r, "withdrew", id)
               /\ r.err = "" =>
                      /\ r.events[1].data = I128Data(bal[Holding] - r.w.bal[Holding])
                      /\ r.events[1].data.value = r.w.bal[streams[id].recipient] - bal[streams[id].recipient])
    /\ [][last'.op = "create_stream" =>
            IF last'.err = ""
            THEN /\ Len(last'.events) = 1
                 /\ last'.events[1].topic = "created"
                 /\ last'.events[1].stream_id \notin DOMAIN streams
                 /\ DOMAIN streams' = DOMAIN streams \cup {last'.events[1].stream_id}
                 /\ last'.events[1].data = I128Data(bal'[Holding] - bal[Holding])
                 /\ last'.events[1].data.value = streams'[last'.events[1].stream_id].deposit_amount
            ELSE last'.events = <<>>]_vars

\* the second stream has just paid its second withdrawal, published as one
\* withdrew event carrying that payment and not the running total
C29_Witness ==
    /\ last.op = "withdraw"
    /\ last.err = ""
    /\ last.events = <<Event("withdrew", 1, I128Data(last.ret[1]))>>
    /\ last.ret[1] > 0
    /\ streams[1].withdrawn_amount > last.ret[1]

\* the call addressed to stream a left the record of every other stream as it was
OthersUntouched(r, a) ==
    \A b \in DOMAIN streams : b # a => (b \in DOMAIN r.w.streams /\ r.w.streams[b] = streams[b])

\* C30: a pause, resume, cancel or withdraw addressed to stream id a, by any
\* caller and whether it succeeds or not, leaves the record of every other
\* stream unchanged, and a create leaves every existing record unchanged
C30_StreamsIndependent ==
    /\ [](\A caller \in Accounts, a \in IdInputs :
            /\ OthersUntouched(pause_stream(Env, caller, a), a)
            /\ OthersUntouched(resume_stream(Env, caller, a), a)
            /\ OthersUntouched(cancel_stream(Env, caller, a), a)
            /\ OthersUntouched(cancel_stream_as_admin(Env, caller, a), a)
            /\ OthersUntouched(withdraw(Env, caller, a), a))
    /\ [][last'.op = "create_stream" =>
            \A b \in DOMAIN streams : b \in DOMAIN streams' /\ streams'[b] = streams[b]]_vars

\* the first stream has just been cancelled next to a second stream that is
\* Paused with a withdrawal behind it
C30_Witness ==
    /\ last.op \in CancelOps
    /\ last.err = ""
    /\ last.events[1].stream_id = 0
    /\ streams[0].status = "Cancelled"
    /\ 1 \in DOMAIN streams
    /\ streams[1].status = "Paused"
    /\ streams[1].withdrawn_amount > 0

\* the fields of a record fixed at create
SameScheduleAndParties(s, t) ==
    /\ t.stream_id = s.stream_id
    /\ t.sender = s.sender
    /\ t.recipient = s.recipient
    /\ t.start_time = s.start_time
    /\ t.cliff_time = s.cliff_time
    /\ t.end_time = s.end_time
    /\ t.rate_per_second = s.rate_per_second
    /\ t.deposit_amount = s.deposit_amount

\* C31: no step changes the stream_id, sender, recipient, start_time,
\* cliff_time, end_time, rate_per_second or deposit_amount of a stored stream
\* or removes its record; a Cancelled or Completed stream keeps that status
\* and get_stream_state returns its stored record
C31_ScheduleImmutableRecordKept ==
    /\ [](\A id \in DOMAIN streams :
            streams[id].status \in Terminal =>
                LET r == get_stream_state(Env, id) IN
                r.err = "" /\ r.ret = <<streams[id]>> /\ r.w = Env)
    /\ [][\A id \in DOMAIN streams :
            /\ id \in DOMAIN streams'
            /\ SameScheduleAndParties(streams[id], streams'[id])
            /\ streams[id].status \in Terminal => streams'[id].status = streams[id].status]_vars

\* get_stream_state has just returned the record of a Completed stream, fully
\* withdrawn, with the schedule it was created with
C31_Witness ==
    /\ last.op = "get_stream_state"
    /\ last.err = ""
    /\ last.ret = <<streams[0]>>
    /\ streams[0].status = "Completed"
    /\ streams[0].withdrawn_amount = streams[0].deposit_amount
    /\ streams[0].rate_per_second > 0

\* C32: withdrawn_amount of every stream starts at 0, is changed only by a
\* withdraw that returned, each change is a strict increase, and it is never
\* above deposit_amount
C32_WithdrawnMonotone ==
    /\ [](\A id \in DOMAIN streams :
            0 <= streams[id].withdrawn_amount
            /\ streams[id].withdrawn_amount <= streams[id].deposit_amount)
    /\ [][/\ \A id \in (DOMAIN streams') \ (DOMAIN streams) : streams'[id].withdrawn_amount = 0
          /\ \A id \in DOMAIN streams :
                streams'[id].withdrawn_amount # streams[id].withdrawn_amount =>
                    /\ Returned("withdraw")
                    /\ ActedId = id
                    /\ streams'[id].withdrawn_amount > streams[id].withdrawn_amount]_vars

\* the second of two withdrawals has just raised withdrawn_amount to the deposit
C32_Witness ==
    /\ last.op = "withdraw"
    /\ last.err = ""
    /\ 0 < last.ret[1]
    /\ last.ret[1] < streams[0].withdrawn_amount
    /\ streams[0].withdrawn_amount = streams[0].deposit_amount

\* ids that create_stream has not returned
UnknownIds == IdInputs \ DOMAIN streams

\* the call stopped with 'stream not found' and left storage and balances alone
NotFound(r) == r.err = "stream not found" /\ r.w = Env /\ r.events = <<>>

\* the entry points that load the stream before anything else
NotFoundFirst(caller, id) ==
    /\ NotFound(get_stream_state(Env, id))
    /\ NotFound(calculate_accrued(Env, id))
    /\ NotFound(pause_stream(Env, caller, id))
    /\ NotFound(resume_stream(Env, caller, id))
    /\ NotFound(cancel_stream(Env, caller, id))
    /\ NotFound(withdraw(Env, caller, id))

\* C33 (as stated): every operation addressed to an id that create never
\* returned, the admin's cancel included, fails with 'stream not found'
\* whoever calls it and changes no state
C33_UnknownIdNotFound ==
    \A caller \in Accounts, id \in UnknownIds :
        /\ NotFoundFirst(caller, id)
        /\ NotFound(cancel_stream_as_admin(Env, caller, id))

\* C33 (amended): addressed to an id that create never returned,
\* get_stream_state, calculate_accrued, pause, resume, cancel_stream and
\* withdraw fail with 'stream not found' for every caller; the admin's cancel
\* entry point does so when the admin calls it and fails on its admin check
\* otherwise; none of them changes any state, and every step that ends in
\* 'stream not found' leaves the contract as it was
C33_UnknownIdFails ==
    /\ [](\A caller \in Accounts, id \in UnknownIds :
            /\ NotFoundFirst(caller, id)
            /\ LET r == cancel_stream_as_admin(Env, caller, id) IN
               /\ r.w = Env /\ r.events = <<>>
               /\ r.err = IF admin = NoAddr THEN "contract not initialised: missing admin"
                          ELSE IF caller = admin THEN "stream not found"
                          ELSE "unauthorized")
    /\ [][last'.err = "stream not found" =>
            UNCHANGED <<admin, token, stream_count, streams, bal, cancels>>]_vars

\* next to an existing stream, a withdraw addressed to another id has just
\* failed with 'stream not found'
C33_Witness ==
    /\ last.op = "withdraw"
    /\ last.err = "stream not found"
    /\ 0 \in DOMAIN streams
    /\ streams[0].status = "Active"
    /\ bal[Holding] > 0

\* C34: for every stored stream at every clock value the contract's
\* calculate_accrued returns, with a result within [0, deposit_amount], and
\* the result is deposit_amount when (now - start_time) * rate_per_second is
\* out of the i128 range
C34_ContractAccrualNeverFaults ==
    \A id \in DOMAIN streams :
        LET s == streams[id]
            r == calculate_accrued(Env, id)
        IN /\ r.err = ""
           /\ 0 <= r.ret[1]
           /\ r.ret[1] <= s.deposit_amount
           /\ (now >= s.cliff_time /\ now >= s.start_time
                  /\ Overflows((now - s.start_time) * s.rate_per_second))
                 => r.ret = <<s.deposit_amount>>

\* C35: every cancel that returns, through the sender's or the admin's entry
\* point, publishes one 'cancelled' event for the stream whose data is the
\* refund deposit_amount - accrued(now) sent to the sender
C35_CancelEventCarriesRefund ==
    [][\A op \in CancelOps : Returned(op) =>
          LET s == streams[ActedId] IN
          /\ Len(last'.events) = 1
          /\ last'.events[1].topic = "cancelled"
          /\ last'.events[1].data = I128Data(s.deposit_amount - Accrued(s, now))]_vars

\* what the cancel of stream id sent back to the sender, 0 if it was never cancelled
Refunded(id) == IF id \in DOMAIN cancels THEN cancels[id].refund ELSE 0

\* C36: for every stream, the refund paid at its cancel plus the total
\* withdrawn by its recipient is at most its deposit_amount
C36_StreamPaysOutAtMostDeposit ==
    \A id \in DOMAIN streams :
        Refunded(id) + streams[id].withdrawn_amount <= streams[id].deposit_amount

\* what is left in the holding account of stream id's deposit
Share(id) == streams[id].deposit_amount - Refunded(id) - streams[id].withdrawn_amount

RECURSIVE SumOfShares(_)
SumOfShares(ids) ==
    IF ids = {} THEN 0
    ELSE LET id == CHOOSE i \in ids : TRUE IN Share(id) + SumOfShares(ids \ {id})

\* C37: the holding balance is the sum over all streams of deposit_amount -
\* refunded - withdrawn_amount; no cancel or withdraw fails in the transfer for
\* lack of holding funds; and no stream has drawn on another stream's deposit
C37_HoldingSolvent ==
    /\ bal[Holding] = SumOfShares(DOMAIN streams)
    /\ \A id \in DOMAIN streams :
          /\ Share(id) >= 0
          /\ withdraw(Env, streams[id].recipient, id).err # "transfer failed"
          /\ cancel_stream(Env, streams[id].sender, id).err # "transfer failed"
          /\ cancel_stream_as_admin(Env, admin, id).err # "transfer failed"

\* C39: a Completed stream has withdrawn_amount = deposit_amount, and a stream
\* whose cancel paid a refund is never Completed
C39_CompletedMeansFullyWithdrawn ==
    \A id \in DOMAIN streams :
        /\ streams[id].status = "Completed" =>
               streams[id].withdrawn_amount = streams[id].deposit_amount
        /\ Refunded(id) > 0 => streams[id].status # "Completed"

\* one stream is Completed after its last withdrawal while the other, refunded
\* at its cancel, has been withdrawn from and is still Cancelled
C39_Witness ==
    /\ last.op = "withdraw"
    /\ last.err = ""
    /\ DOMAIN streams = {0, 1}
    /\ streams[0].status = "Completed"
    /\ streams[0].withdrawn_amount = streams[0].deposit_amount
    /\ Refunded(1) > 0
    /\ streams[1].withdrawn_amount > 0
    /\ streams[1].status = "Cancelled"

\* C38: every stream that exists and is never cancelled is eventually
\* Completed with withdrawn_amount = deposit_amount and nothing of its deposit
\* left in the holding account, when the clock keeps advancing, paused streams
\* are resumed and the recipient withdraws whenever possible
C38_EventuallyCompleted ==
    \A id \in 0 .. (MaxStreams - 1) :
        (id \in DOMAIN streams) ~>
            (/\ id \in DOMAIN streams
             /\ \/ streams[id].status = "Cancelled"
                \/ /\ streams[id].status = "Completed"
                   /\ streams[id].withdrawn_amount = streams[id].deposit_amount
                   /\ Share(id) = 0)
====
